---- MODULE Spec2Model ----
(***************************************************************************)
(* Verification model of the agent toolkit:                                *)
(*   - createSchemas (the schema builder),                                 *)
(*   - the four actor constructors of StatelyAgentAdapter (fromChat,       *)
(*     fromChatStream, fromEventChoice, fromToolChoice).                   *)
(*                                                                         *)
(* A JavaScript object is modelled as the sequence of its own properties   *)
(* in the order they were written, each a record [key, value]; keys are    *)
(* distinct.  Object.keys is modelled by what it does on such an object.   *)
(***************************************************************************)
EXTENDS Integers, Sequences, FiniteSets, TLC

\* ------------------------------------------------------------------ bounds
MaxFields == 2
MaxEvents == 2
MaxCalls == 2

\* ------------------------------------------------------- schema builder
\* args:    the argument object {context, events} of createSchemas
\* results: what each call so far returned or threw, in call order
VARIABLES args, results

schemaVars == <<args, results>>

\* One invocation of an actor built by one of the four constructors.  The
\* interface StatelyAgentAdapter declares the constructors, their options and
\* their output types; what an invoked actor does is modelled after the
\* specification's sections 4.2 (constructors), 5 (suspension, cancellation),
\* 6 (transport and dispatch contracts) and 7 (errors).
\* kind, execute, tools: the constructor used, options.execute, the registry
\* status:    idle, active (in flight), done, error, stopped (cancelled)
\* pc, idx:   where the actor is suspended, and at which choice or event
\* transport: idle, pending, ok, failed, aborted; response: its completion
\* events:    the events produced so far
\* channel:   stream signals (chunk, end, error) arrived and not yet handled
\* sent:      every chunk the transport has delivered into the channel
\* output, error: what the actor resolved with or was rejected with
\* log:       what has happened, in order: request, invokeTool, dispatch,
\*            emit, complete, error, resolve, reject, cancel, abort
\* cancels:   how often the executor has called cancel
VARIABLES kind, execute, tools, status, pc, idx, transport, response, events, channel, sent, output, error, log, cancels

adapterVars == <<kind, execute, tools, status, pc, idx, transport, response, events, channel, sent, output, error, log, cancels>>

\* The quiz machine of examples/quiz.ts.
\* qstate:    the active state ("Setup.Get topic" ... "Game over")
\* ctx:       the machine context
\* internal:  events raised during the current macrostep, not yet handled
\* lastEvent: the type of the event the machine handled last
\* orphaned:  an actor was stopped while its promise was still pending
VARIABLES qstate, ctx, internal, lastEvent, orphaned

quizVars == <<qstate, ctx, internal, lastEvent, orphaned>>

vars == <<schemaVars, adapterVars, quizVars>>

\* Property names used for context fields: ordinary names and names that are
\* canonical array indices ("0", "1"), which Object.keys lists first.
FieldNames == {"score", "currentTopic", "0", "1"}

IsArrayIndex(k) == k \in {"0", "1"}

ArrayIndex(k) == IF k = "0" THEN 0 ELSE IF k = "1" THEN 1 ELSE -1

\* Values a context property can hold: two well-formed field descriptors
\* ({type: "number"}, {type: "string"}) and a bare string, which is no
\* descriptor (quiz.ts passes one: `type: "object"`).
Descriptor(t) == [kind |-> "descriptor", val |-> t]

FieldValues == {Descriptor("number"), Descriptor("string"), [kind |-> "string", val |-> "object"]}

ValidFieldDescriptor(v) == v.kind = "descriptor"

Prop(k, v) == [key |-> k, value |-> v]

Keys(obj) == [i \in 1..Len(obj) |-> obj[i].key]

KeySet(obj) == {obj[i].key : i \in 1..Len(obj)}

DistinctKeys(obj) == \A i, j \in 1..Len(obj) : i # j => obj[i].key # obj[j].key

\* All objects with at most n properties, names from K, values from V.
Objects(K, V, n) == {o \in UNION {[1..k -> {Prop(a, b) : a \in K, b \in V}] : k \in 0..n} : DistinctKeys(o)}

RECURSIVE SortAscending(_)
SortAscending(S) == IF S = {} THEN <<>> ELSE LET m == CHOOSE x \in S : \A y \in S : ArrayIndex(x) <= ArrayIndex(y) IN <<m>> \o SortAscending(S \ {m})

NotArrayIndex(k) == ~IsArrayIndex(k)

ObjectKeysDeclared(obj) == Keys(obj)

\* Object.keys(obj): own string keys, array indices first in ascending
\* numeric order, then the other names in the order they were created.
ObjectKeys(obj) == SortAscending({k \in KeySet(obj) : IsArrayIndex(k)}) \o SelectSeq(Keys(obj), NotArrayIndex)

\* The event descriptors: {name: {type: "object", properties: {...}}}.
EventNames == {"submit", "retry"}

PayloadNames == {"answer"}

EventDescriptor(props) == [kind |-> "object", properties |-> props]

EventDescriptors == {EventDescriptor(p) : p \in Objects(PayloadNames, {Descriptor("string"), Descriptor("number")}, 1)}

\* The normalised schema of one event.
EventSchema(name, descriptor) == [type |-> "object", required |-> <<"type">>, properties |-> <<Prop("type", [kind |-> "const", val |-> name])>> \o descriptor.properties, additionalProperties |-> FALSE]

createEventSchemas(descriptors) == [i \in 1..Len(descriptors) |-> Prop(descriptors[i].key, EventSchema(descriptors[i].key, descriptors[i].value))]

\* The `context:` part of the returned object (lines 29-34).
ContextSchema(context) == [type |-> "object", properties |-> context.props, additionalProperties |-> FALSE, required |-> ObjectKeys(context.props)]

EventsPartEmpty(a) == createEventSchemas(<<>>)

\* The `events:` part of the returned object (line 35).
EventsPart(a) == createEventSchemas(a.events)

NoBundle == [context |-> [type |-> "none", properties |-> <<>>, additionalProperties |-> FALSE, required |-> <<>>], events |-> <<>>, types |-> <<>>]

Returned(b) == [threw |-> FALSE, error |-> "none", bundle |-> b]

Threw(e) == [threw |-> TRUE, error |-> e, bundle |-> NoBundle]

createSchemasValidating(a) == IF a.context.isNull \/ \E i \in 1..Len(a.context.props) : ~ValidFieldDescriptor(a.context.props[i].value) THEN Threw("InvalidSchemaError") ELSE Returned([context |-> ContextSchema(a.context), events |-> EventsPart(a), types |-> <<>>])

\* createSchemas({context, events}).  The object literal is evaluated in
\* order; Object.keys(null) throws a TypeError before anything is returned.
\* No value of `context` is inspected.
createSchemas(a) == IF a.context.isNull THEN Threw("TypeError") ELSE Returned([context |-> ContextSchema(a.context), events |-> EventsPart(a), types |-> <<>>])

NullContext == [isNull |-> TRUE, props |-> <<>>]

Contexts == {NullContext} \cup {[isNull |-> FALSE, props |-> o] : o \in Objects(FieldNames, FieldValues, MaxFields)}

EventSets == Objects(EventNames, EventDescriptors, MaxEvents)

\* ------------------------------------------------------- actor adapter

MaxChoices == 3
MaxChunks == 2
MaxCancels == 2

Kinds == {"fromChat", "fromChatStream", "fromEventChoice", "fromToolChoice"}

\* The constructors that take `options` (fromEventChoice, fromToolChoice).
ChoiceKinds == {"fromEventChoice", "fromToolChoice"}

\* Names the completion can select, and the names a tools registry can hold.
ChoiceNames == {"search", "lookup", "submit"}

ToolNames == {"search", "lookup"}

\* A choice / tool call of the completion: the selected name, and whether its
\* payload is well formed (parses, and fits the tool's input schema).
Choices == [name : ChoiceNames, ok : BOOLEAN]

Responses == UNION {[1..n -> Choices] : n \in 0..MaxChoices}

Chunks == {"c1", "c2"}

Entry(op, val) == [op |-> op, val |-> val]

Ops(l, op) == SelectSeq(l, LAMBDA e : e.op = op)

Count(l, op) == Len(Ops(l, op))

Vals(l, op) == [i \in 1..Count(l, op) |-> Ops(l, op)[i].val]

DefaultExecuteFalse == FALSE

\* options.execute: "@default true".
DefaultExecute == TRUE

ExecuteOptionIgnored(opt) == DefaultExecute

ExecuteOption(opt) == IF opt = "unset" THEN DefaultExecute ELSE opt = "true"

\* The event a choice is mapped to (one-to-one).
EventOf(choice) == [type |-> choice.name]

MapEvents(r) == [i \in 1..Len(r) |-> EventOf(r[i])]

EventTypes(evs) == [i \in 1..Len(evs) |-> evs[i].type]

NoOutput == [kind |-> "none", val |-> <<>>]

Undefined == [kind |-> "undefined", val |-> <<>>]

EventsOutput(evs) == [kind |-> "events", val |-> EventTypes(evs)]

CompletionOutputFirstChoice(r) == [kind |-> "completion", val |-> IF r = <<>> THEN r ELSE <<r[1]>>]

CompletionOutput(r) == [kind |-> "completion", val |-> r]

SchemasAtRest == args = [context |-> NullContext, events |-> <<>>] /\ results = <<>>

AdapterAtRest == /\ kind = "fromChat" /\ execute = "unset" /\ tools = {}
                 /\ status = "idle" /\ pc = "start" /\ idx = 0
                 /\ transport = "idle" /\ response = <<>> /\ events = <<>>
                 /\ channel = <<>> /\ sent = <<>>
                 /\ output = NoOutput /\ error = "none" /\ log = <<>> /\ cancels = 0

\* ------------------------------------------------------------ quiz machine
MaxQuestionNumber == 8
MaxScore == 520

\* A number as Number(...) yields it: an integer or NaN.
Num(n) == [nan |-> FALSE, val |-> n]

NaN == [nan |-> TRUE, val |-> 0]

\* What the user can type when asked for the number of questions.
NumberInputs == {"abc", "", "-1", "1", "2", "3"}

\* Number(event.output): the empty string is 0, a non-numeric string is NaN.
ToNumber(str) == CASE str = "" -> Num(0) [] str = "-1" -> Num(-1) [] str = "1" -> Num(1) [] str = "2" -> Num(2) [] str = "3" -> Num(3) [] OTHER -> NaN

\* n >= m for a number n and a Number m: false whenever m is NaN.
GreaterEq(n, m) == ~m.nan /\ n >= m.val

Min(a, b) == IF a < b THEN a ELSE b

Max(a, b) == IF a > b THEN a ELSE b

\* The template literal assigned to `levels`, as newlines and lines of text;
\* a line is its name (before the colon) and the rest.
Newline == [name |-> "\n", rest |-> ""]

EmptyString == [name |-> "", rest |-> ""]

Line(n) == [name |-> n, rest |-> ": description"]

LevelNames == <<"Novice", "Easy", "Intermediate", "Challenging", "Advanced", "Expert", "Master", "Genius", "Legend">>

RECURSIVE LinesWithNewlines(_)
LinesWithNewlines(names) == IF names = <<>> THEN <<>> ELSE <<Line(Head(names)), Newline>> \o LinesWithNewlines(Tail(names))

LevelsTemplate == <<Newline>> \o LinesWithNewlines(LevelNames)

RECURSIVE Split(_, _)
Split(tokens, current) == IF tokens = <<>> THEN <<current>> ELSE IF Head(tokens) = Newline THEN <<current>> \o Split(Tail(tokens), EmptyString) ELSE Split(Tail(tokens), Head(tokens))

\* levels = `...`.split("\n")
levels == Split(LevelsTemplate, EmptyString)

UndefinedLevel == [name |-> "undefined", rest |-> ""]

\* levels[i], i counted from 0.
LevelAt(i) == IF i + 1 \in 1..Len(levels) THEN levels[i + 1] ELSE UndefinedLevel

\* levels[difficultyLevel - 1].replace(/:.*/, "")
difficultyRating(difficultyLevel) == [name |-> LevelAt(difficultyLevel - 1).name, rest |-> ""]

\* The level text in fetchQuestion's prompt.
PromptLevel(difficultyLevel) == LevelAt(difficultyLevel - 1)

\* The argument of createSchemas in quiz.ts.
QuizFields == <<Prop("score", Descriptor("number")), Prop("currentTopic", Descriptor("string")), Prop("currentQuestion", Descriptor("string")), Prop("currentAnswer", Descriptor("string")), Prop("answerResponse", Descriptor("string")), Prop("difficultyLevel", Descriptor("number")), Prop("numberOfQuestions", Descriptor("number")), Prop("questionNumber", Descriptor("number"))>>

QuizContextArg == [isNull |-> FALSE, props |-> <<Prop("type", [kind |-> "string", val |-> "object"]), Prop("properties", [kind |-> "object", val |-> QuizFields])>>]

QuizEventTypes == <<"next question", "start", "submit", "retry", "end game">>

QuizEventsArg == [i \in 1..Len(QuizEventTypes) |-> Prop(QuizEventTypes[i], EventDescriptor(<<>>))]

schemas == createSchemas([context |-> QuizContextArg, events |-> QuizEventsArg])

\* The machine's initial context.
InitialContext == [score |-> 0, currentTopic |-> "", currentQuestion |-> "", difficultyLevel |-> 3, numberOfQuestions |-> Num(10), questionNumber |-> 1, answerResponse |-> "", currentAnswer |-> ""]

QuizStates == {"Setup.Get topic", "Setup.Questions", "Fetching question", "Awaiting answer", "Failure", "Checking answer", "Waiting for next question", "Game over"}

\* The actor a state invokes and waits for ("none": Failure, Game over).
InvokedIn(state) == CASE state \in {"Setup.Get topic", "Setup.Questions", "Awaiting answer", "Waiting for next question"} -> "getUserInput"
                      [] state = "Fetching question" -> "fetchQuestion"
                      [] state = "Checking answer" -> "checkAnswer"
                      [] OTHER -> "none"

CheckResponses == {"Yes. Correct", "No. Wrong"}

\* answerResponse.startsWith("Yes")
StartsWithYes(str) == str = "Yes. Correct"

\* questionNumber + 1.  Number addition absorbs the 1 once the value is too
\* large (2^53); MaxQuestionNumber stands for that value.
Increment(n) == IF n < MaxQuestionNumber THEN n + 1 ELSE n

ScoreAfterYesNewLevel(c) == c.score + Min(c.difficultyLevel + 1, 10) * 10

\* score: context.score + context.difficultyLevel * 10
ScoreAfterYes(c) == c.score + c.difficultyLevel * 10

LevelAfterYesUnclamped(c) == c.difficultyLevel + 1

\* difficultyLevel: Math.min(context.difficultyLevel + 1, 10)
LevelAfterYes(c) == Min(c.difficultyLevel + 1, 10)

\* difficultyLevel: Math.max(context.difficultyLevel - 1, 1)
LevelAfterNo(c) == Max(c.difficultyLevel - 1, 1)

\* The actions of 'Checking answer' onDone: assign answerResponse, then the
\* enqueued assign, which reads the context as the first assign left it.
CheckAnswerAssign(c, out) == LET c1 == [c EXCEPT !.answerResponse = out] IN
                               IF StartsWithYes(c1.answerResponse) THEN [c1 EXCEPT !.score = ScoreAfterYes(c1), !.difficultyLevel = LevelAfterYes(c1)] ELSE [c1 EXCEPT !.difficultyLevel = LevelAfterNo(c1)]

\* The assign of the 'next question' transition.
NextQuestionAssign(c) == [c EXCEPT !.questionNumber = Increment(c.questionNumber), !.currentQuestion = "", !.currentAnswer = "", !.answerResponse = ""]

ShouldEndGameStrict(c) == ~c.numberOfQuestions.nan /\ c.questionNumber > c.numberOfQuestions.val

\* The condition of the entry action of 'Waiting for next question'.
ShouldEndGame(c) == GreaterEq(c.questionNumber, c.numberOfQuestions)

\* entry of 'Waiting for next question': the events it raises.
WaitingEntry(c) == IF ShouldEndGame(c) THEN <<"end game">> ELSE <<>>

To(state, c, raised) == [state |-> state, ctx |-> c, raised |-> raised]

OnErrorStay(state, c) == To(state, c, <<>>)

\* onError of 'Fetching question' and of 'Checking answer'.
OnError(state, c) == To("Failure", c, <<>>)

RootOnOutsideSetup(state, c, type) == IF type = "end game" /\ state \notin {"Setup.Get topic", "Setup.Questions"} THEN To("Game over", c, <<>>) ELSE To(state, c, <<>>)

\* The transitions of the root: 'end game' from every state.
RootOn(state, c, type) == IF type = "end game" THEN To("Game over", c, <<>>) ELSE To(state, c, <<>>)

\* The transition the machine takes in `state` on event e: the state's own
\* transitions first, then the root's; an event nothing handles changes
\* nothing.  Leaving 'Setup.Questions' enters Setup's final state, whose
\* onDone leads on to 'Fetching question' in the same step.
Transition(state, c, e) == CASE state = "Setup.Get topic" /\ e.type = "done.getUserInput" -> To("Setup.Questions", [c EXCEPT !.currentTopic = e.output], <<>>)
                             [] state = "Setup.Questions" /\ e.type = "done.getUserInput" -> To("Fetching question", [c EXCEPT !.numberOfQuestions = ToNumber(e.output)], <<>>)
                             [] state = "Fetching question" /\ e.type = "done.fetchQuestion" -> To("Awaiting answer", [c EXCEPT !.currentQuestion = e.output], <<>>)
                             [] state = "Fetching question" /\ e.type = "error.fetchQuestion" -> OnError(state, c)
                             [] state = "Awaiting answer" /\ e.type = "done.getUserInput" -> To("Checking answer", [c EXCEPT !.currentAnswer = e.output], <<>>)
                             [] state = "Failure" /\ e.type = "retry" -> To("Fetching question", c, <<>>)
                             [] state = "Checking answer" /\ e.type = "done.checkAnswer" -> To("Waiting for next question", CheckAnswerAssign(c, e.output), WaitingEntry(CheckAnswerAssign(c, e.output)))
                             [] state = "Checking answer" /\ e.type = "error.checkAnswer" -> OnError(state, c)
                             [] state = "Waiting for next question" /\ e.type = "done.getUserInput" -> To(state, c, <<"next question">>)
                             [] state = "Waiting for next question" /\ e.type = "next question" -> To("Fetching question", NextQuestionAssign(c), <<>>)
                             [] OTHER -> RootOn(state, c, e.type)

Event(type, out) == [type |-> type, output |-> out]

QuizAtRest == /\ qstate = "Setup.Get topic" /\ ctx = InitialContext
              /\ internal = <<>> /\ lastEvent = "xstate.init" /\ orphaned = FALSE

InitQuiz == QuizAtRest /\ SchemasAtRest /\ AdapterAtRest

\* The machine handles one event.  Once in 'Game over' it has stopped and
\* handles nothing.  An actor whose state is left by an event that is not
\* its own completion is stopped with its promise still pending.
Handle(e, queue, external) == IF qstate = "Game over" THEN UNCHANGED quizVars
                              ELSE LET t == Transition(qstate, ctx, e) IN
                                     /\ qstate' = t.state /\ ctx' = t.ctx
                                     /\ internal' = queue \o t.raised
                                     /\ lastEvent' = e.type
                                     /\ orphaned' = (orphaned \/ (external /\ t.state # qstate /\ InvokedIn(qstate) # "none"))

\* getUserInput resolves with what the user typed.
UserInputDone == /\ InvokedIn(qstate) = "getUserInput" /\ internal = <<>>
                 /\ \E v \in (IF qstate = "Setup.Questions" THEN NumberInputs ELSE {"text"}) : Handle(Event("done.getUserInput", v), <<>>, FALSE)
                 /\ UNCHANGED <<schemaVars, adapterVars>>

\* fetchQuestion resolves with a completion.
FetchQuestionDone == /\ qstate = "Fetching question" /\ internal = <<>>
                     /\ Handle(Event("done.fetchQuestion", "question"), <<>>, FALSE)
                     /\ UNCHANGED <<schemaVars, adapterVars>>

\* fetchQuestion rejects.
FetchQuestionError == /\ qstate = "Fetching question" /\ internal = <<>>
                      /\ Handle(Event("error.fetchQuestion", ""), <<>>, FALSE)
                      /\ UNCHANGED <<schemaVars, adapterVars>>

\* checkAnswer resolves with a completion (a "Yes" only while the score stays
\* within the model's range).
CheckAnswerDone == /\ qstate = "Checking answer" /\ internal = <<>>
                   /\ \E r \in CheckResponses : /\ StartsWithYes(r) => ctx.score + ctx.difficultyLevel * 10 <= MaxScore
                                                /\ Handle(Event("done.checkAnswer", r), <<>>, FALSE)
                   /\ UNCHANGED <<schemaVars, adapterVars>>

\* checkAnswer rejects.
CheckAnswerError == /\ qstate = "Checking answer" /\ internal = <<>>
                    /\ Handle(Event("error.checkAnswer", ""), <<>>, FALSE)
                    /\ UNCHANGED <<schemaVars, adapterVars>>

\* An event sent to the machine from outside.
SendEvent == /\ internal = <<>>
             /\ \E i \in 1..Len(QuizEventTypes) : Handle(Event(QuizEventTypes[i], ""), <<>>, TRUE)
             /\ UNCHANGED <<schemaVars, adapterVars>>

\* A raised event is handled before anything else happens.
RunRaised == /\ internal # <<>>
             /\ Handle(Event(Head(internal), ""), Tail(internal), FALSE)
             /\ UNCHANGED <<schemaVars, adapterVars>>

\* The promise of a stopped actor settles; the machine does not hear of it.
LateCompletion == /\ orphaned
                  /\ orphaned' = FALSE
                  /\ UNCHANGED <<qstate, ctx, internal, lastEvent, schemaVars, adapterVars>>

NextQuiz == \/ UserInputDone \/ FetchQuestionDone \/ FetchQuestionError
            \/ CheckAnswerDone \/ CheckAnswerError
            \/ SendEvent \/ RunRaised \/ LateCompletion

SpecQuiz == InitQuiz /\ [][NextQuiz]_vars

\* The quiz when every actor completes successfully and nothing is sent from
\* outside; a step that can be taken is eventually taken.
NextQuizPlay == UserInputDone \/ FetchQuestionDone \/ CheckAnswerDone \/ RunRaised

SpecQuizPlay == InitQuiz /\ [][NextQuizPlay]_vars /\ WF_vars(NextQuizPlay)

InitSchemas == /\ args \in {[context |-> c, events |-> e] : c \in Contexts, e \in EventSets}
               /\ results = <<>>
               /\ AdapterAtRest /\ QuizAtRest

\* One call of createSchemas with the arguments chosen at the start.
CallCreateSchemas == /\ Len(results) < MaxCalls
                     /\ results' = Append(results, createSchemas(args))
                     /\ UNCHANGED <<args, adapterVars, quizVars>>

NextSchemas == CallCreateSchemas

SpecSchemas == InitSchemas /\ [][NextSchemas]_vars

\* ------------------------------------------------- schema builder: claims
ResultsReturned == {i \in 1..Len(results) : ~results[i].threw}

IndexOf(seq, x) == CHOOSE i \in 1..Len(seq) : seq[i] = x

ValueOf(obj, k) == obj[CHOOSE i \in 1..Len(obj) : obj[i].key = k].value

\* The order Object.keys gives, stated without computing it: array indices
\* ascending and before every other name, other names in declaration order.
KeyOrderOf(req, obj) == \A i, j \in 1..Len(req) : i < j =>
                           /\ IsArrayIndex(req[j]) => IsArrayIndex(req[i]) /\ ArrayIndex(req[i]) < ArrayIndex(req[j])
                           /\ ~IsArrayIndex(req[i]) /\ ~IsArrayIndex(req[j]) => IndexOf(Keys(obj), req[i]) < IndexOf(Keys(obj), req[j])

ClosedObjectSchemaOf(schema, obj) == /\ schema.type = "object"
                                     /\ schema.properties = obj
                                     /\ schema.additionalProperties = FALSE
                                     /\ Len(schema.required) = Len(obj)
                                     /\ {schema.required[i] : i \in 1..Len(schema.required)} = KeySet(obj)

\* C2 (as stated): for every context field mapping C the returned context
\* schema has type 'object', properties C, additionalProperties false and
\* required equal to the keys of C in declaration order.
C2_RequiredInDeclarationOrder == \A i \in ResultsReturned : /\ ClosedObjectSchemaOf(results[i].bundle.context, args.context.props)
                                                            /\ results[i].bundle.context.required = Keys(args.context.props)

\* C2 (amended): the returned context schema has type 'object', properties C,
\* additionalProperties false, and required lists every key of C exactly once
\* in the order of Object.keys: names that are array indices first, in
\* ascending numeric order, then the other names in declaration order (which
\* is declaration order whenever no name is an array index).
C2_RequiredIsObjectKeys == \A i \in ResultsReturned : /\ ClosedObjectSchemaOf(results[i].bundle.context, args.context.props)
                                                      /\ KeyOrderOf(results[i].bundle.context.required, args.context.props)
                                                      /\ (\A k \in KeySet(args.context.props) : ~IsArrayIndex(k)) => results[i].bundle.context.required = Keys(args.context.props)

C2_Witness == /\ ResultsReturned # {}
              /\ Len(args.context.props) = 2
              /\ ~IsArrayIndex(args.context.props[1].key)
              /\ IsArrayIndex(args.context.props[2].key)

EventSchemaFor(schema, name, descriptor) == /\ schema.additionalProperties = FALSE
                                            /\ \E r \in 1..Len(schema.required) : schema.required[r] = "type"
                                            /\ DistinctKeys(schema.properties)
                                            /\ KeySet(schema.properties) = {"type"} \cup KeySet(descriptor.properties)
                                            /\ ValueOf(schema.properties, "type") = [kind |-> "const", val |-> name]
                                            /\ \A k \in KeySet(descriptor.properties) : ValueOf(schema.properties, k) = ValueOf(descriptor.properties, k)

\* C3: the events part of the returned bundle has exactly the key set of E;
\* each event's schema is closed, requires 'type', fixes 'type' to the event
\* name and keeps the declared payload properties unchanged.
C3_EventSchemasNormalised == \A i \in ResultsReturned : /\ KeySet(results[i].bundle.events) = KeySet(args.events)
                                                        /\ DistinctKeys(results[i].bundle.events)
                                                        /\ \A e \in KeySet(args.events) : EventSchemaFor(ValueOf(results[i].bundle.events, e), e, ValueOf(args.events, e))

C3_Witness == /\ ResultsReturned # {}
              /\ Len(args.events) = 2
              /\ \E j \in 1..2 : args.events[j].value.properties # <<>>

HasInvalidDescriptor(context) == \E j \in 1..Len(context.props) : ~ValidFieldDescriptor(context.props[j].value)

\* C10 (as stated): createSchemas fails with InvalidSchemaError, returning no
\* bundle, whenever the context is null or one of its values is not a valid
\* field descriptor.
C10_InvalidContextRejected == args.context.isNull \/ HasInvalidDescriptor(args.context) => \A i \in 1..Len(results) : results[i].threw /\ results[i].error = "InvalidSchemaError"

\* C10 (amended): createSchemas never fails with InvalidSchemaError.  With a
\* null context it fails synchronously with the TypeError of Object.keys and
\* returns no bundle; with a non-null context it returns a bundle whose
\* context properties are the context as given, also when a value is not a
\* valid field descriptor.
C10_NoValidation == \A i \in 1..Len(results) : /\ results[i].error # "InvalidSchemaError"
                                               /\ args.context.isNull => results[i].threw /\ results[i].error = "TypeError" /\ results[i].bundle = NoBundle
                                               /\ ~args.context.isNull => ~results[i].threw /\ results[i].bundle.context.properties = args.context.props

C10_Witness == /\ ~args.context.isNull
               /\ HasInvalidDescriptor(args.context)
               /\ ResultsReturned # {}


InitAdapter == /\ kind \in Kinds
               /\ execute \in (IF kind \in ChoiceKinds THEN {"unset", "true", "false"} ELSE {"unset"})
               /\ tools \in (IF kind = "fromToolChoice" THEN SUBSET ToolNames ELSE {{}})
               /\ status = "idle" /\ pc = "start" /\ idx = 0
               /\ transport = "idle" /\ response = <<>> /\ events = <<>>
               /\ channel = <<>> /\ sent = <<>>
               /\ output = NoOutput /\ error = "none" /\ log = <<>> /\ cancels = 0
               /\ SchemasAtRest /\ QuizAtRest

\* The actor's own position: status, program point, outputs and the history
\* of what it did to its collaborators.
Goto(st, p, i, evs, out, err, entries) == /\ status' = st /\ pc' = p /\ idx' = i /\ events' = evs
                                          /\ output' = out /\ error' = err /\ log' = log \o entries

Resolve(evs, out) == Goto("done", "finished", idx, evs, out, "none", <<Entry("resolve", out.kind)>>)

RejectWith(err) == Goto("error", "finished", idx, events, NoOutput, err, <<Entry("reject", err)>>)

\* The executor invokes the actor: inputFn is evaluated and one request (or
\* one stream) is opened on the transport; the actor suspends.
StartActor == /\ status = "idle"
              /\ Goto("active", "awaitCompletion", idx, events, output, error, <<Entry("request", kind)>>)
              /\ transport' = "pending"
              /\ UNCHANGED <<kind, execute, tools, response, channel, sent, cancels, schemaVars, quizVars>>

\* The transport settles a one-shot request with a completion result.
TransportSucceed == /\ kind # "fromChatStream" /\ transport = "pending"
                    /\ \E r \in Responses : response' = r
                    /\ transport' = "ok"
                    /\ UNCHANGED <<kind, execute, tools, status, pc, idx, events, channel, sent, output, error, log, cancels, schemaVars, quizVars>>

\* The transport settles a one-shot request with a failure.
TransportFail == /\ kind # "fromChatStream" /\ transport = "pending"
                 /\ transport' = "failed"
                 /\ UNCHANGED <<kind, execute, tools, status, pc, idx, response, events, channel, sent, output, error, log, cancels, schemaVars, quizVars>>

UnknownTool(r) == \E i \in 1..Len(r) : r[i].name \notin tools

Malformed(r) == \E i \in 1..Len(r) : ~r[i].ok

\* All events are produced: resolve at once, or start dispatching them.
AfterEvents(evs) == IF evs = <<>> THEN Resolve(evs, Undefined) ELSE IF ExecuteOption(execute) THEN Goto("active", "dispatching", 1, evs, NoOutput, "none", <<>>) ELSE Resolve(evs, EventsOutput(evs))

ResumeChat == IF transport = "failed" THEN RejectWith("CompletionRequestError") ELSE Resolve(events, CompletionOutput(response))

ResumeEventChoice == IF transport = "failed" THEN RejectWith("CompletionRequestError") ELSE IF Malformed(response) THEN RejectWith("EventMappingError") ELSE AfterEvents(MapEvents(response))

ResumeToolChoiceUnmatched == IF transport = "failed" THEN RejectWith("CompletionRequestError") ELSE IF response = <<>> THEN AfterEvents(<<>>) ELSE Goto("active", "tools", 1, <<>>, NoOutput, "none", <<>>)

\* Tool calls are matched against the registry before any nested actor runs.
ResumeToolChoice == IF transport = "failed" THEN RejectWith("CompletionRequestError") ELSE IF UnknownTool(response) THEN RejectWith("UnknownToolError") ELSE IF response = <<>> THEN AfterEvents(<<>>) ELSE Goto("active", "tools", 1, <<>>, NoOutput, "none", <<>>)

\* The actor resumes when the transport has settled.
Resume == /\ status = "active" /\ pc = "awaitCompletion" /\ transport \in {"ok", "failed"}
          /\ kind # "fromChatStream"
          /\ CASE kind = "fromChat" -> ResumeChat
               [] kind = "fromEventChoice" -> ResumeEventChoice
               [] kind = "fromToolChoice" -> ResumeToolChoice
          /\ UNCHANGED <<kind, execute, tools, transport, response, channel, sent, cancels, schemaVars, quizVars>>

\* The next matched tool call: its arguments are validated, then the tool's
\* nested actor is invoked and awaited.
ToolInvoke == /\ status = "active" /\ pc = "tools"
              /\ IF ~response[idx].ok THEN RejectWith("InvalidToolInputError") ELSE Goto("active", "awaitTool", idx, events, output, error, <<Entry("invokeTool", response[idx].name)>>)
              /\ UNCHANGED <<kind, execute, tools, transport, response, channel, sent, cancels, schemaVars, quizVars>>

\* The nested actor settles; its result becomes the call's event.
ToolDone == /\ status = "active" /\ pc = "awaitTool"
            /\ IF idx < Len(response) THEN Goto("active", "tools", idx + 1, Append(events, EventOf(response[idx])), output, error, <<>>) ELSE AfterEvents(Append(events, EventOf(response[idx])))
            /\ UNCHANGED <<kind, execute, tools, transport, response, channel, sent, cancels, schemaVars, quizVars>>

DispatchNextWhenStopped == /\ status \in {"active", "stopped"} /\ pc = "dispatching"
                           /\ Goto(status, IF idx < Len(events) THEN "dispatching" ELSE "resolving", IF idx < Len(events) THEN idx + 1 ELSE idx, events, output, error, <<Entry("dispatch", events[idx].type)>>)
                           /\ UNCHANGED <<kind, execute, tools, transport, response, channel, sent, cancels, schemaVars, quizVars>>

\* One event is handed to the parent execution context.
DispatchNext == /\ status = "active" /\ pc = "dispatching"
                /\ Goto("active", IF idx < Len(events) THEN "dispatching" ELSE "resolving", IF idx < Len(events) THEN idx + 1 ELSE idx, events, output, error, <<Entry("dispatch", events[idx].type)>>)
                /\ UNCHANGED <<kind, execute, tools, transport, response, channel, sent, cancels, schemaVars, quizVars>>

\* After the last dispatch the actor resolves with the produced events.
ResolveDispatched == /\ status = "active" /\ pc = "resolving"
                     /\ Resolve(events, EventsOutput(events))
                     /\ UNCHANGED <<kind, execute, tools, transport, response, channel, sent, cancels, schemaVars, quizVars>>

\* The transport delivers one more chunk of an open stream.
StreamSend == /\ kind = "fromChatStream" /\ transport = "pending" /\ Len(sent) < MaxChunks
              /\ \E c \in Chunks : channel' = Append(channel, Entry("chunk", c)) /\ sent' = Append(sent, c)
              /\ UNCHANGED <<kind, execute, tools, status, pc, idx, transport, response, events, output, error, log, cancels, schemaVars, quizVars>>

\* The transport signals end-of-stream.
StreamEnd == /\ kind = "fromChatStream" /\ transport = "pending"
             /\ channel' = Append(channel, Entry("end", ""))
             /\ transport' = "ok"
             /\ UNCHANGED <<kind, execute, tools, status, pc, idx, response, events, sent, output, error, log, cancels, schemaVars, quizVars>>

\* The transport fails in the middle of the stream.
StreamFail == /\ kind = "fromChatStream" /\ transport = "pending"
              /\ channel' = Append(channel, Entry("error", ""))
              /\ transport' = "failed"
              /\ UNCHANGED <<kind, execute, tools, status, pc, idx, response, events, sent, output, error, log, cancels, schemaVars, quizVars>>

TakeLast(ch) == ch[Len(ch)]

\* The signal the actor handles next: the oldest one.
TakeNext(ch) == Head(ch)

RestAfter(ch) == Tail(ch)

\* The streaming actor resumes once per arrived signal.
StreamDeliver == /\ kind = "fromChatStream" /\ status = "active" /\ channel # <<>>
                 /\ LET s == TakeNext(channel) IN
                      CASE s.op = "chunk" -> Goto("active", pc, idx, events, output, error, <<Entry("emit", s.val)>>)
                        [] s.op = "end" -> Goto("done", "finished", idx, events, output, error, <<Entry("complete", "")>>)
                        [] s.op = "error" -> Goto("error", "finished", idx, events, output, "StreamError", <<Entry("error", "StreamError")>>)
                 /\ channel' = RestAfter(channel)
                 /\ UNCHANGED <<kind, execute, tools, transport, response, sent, cancels, schemaVars, quizVars>>

CancelEntriesNoAbort == <<Entry("cancel", "")>>

\* What a cancellation of an in-flight actor does: the transport is told to
\* abort, once.
CancelEntries == <<Entry("cancel", ""), Entry("abort", "")>>

\* The executor cancels the actor.  Only an in-flight actor is affected.
Cancel == /\ status # "idle" /\ cancels < MaxCancels
          /\ cancels' = cancels + 1
          /\ IF status = "active" THEN /\ Goto("stopped", pc, idx, events, output, error, CancelEntries)
                                       /\ transport' = IF transport = "pending" THEN "aborted" ELSE transport
                                  ELSE UNCHANGED <<status, pc, idx, events, output, error, log, transport>>
          /\ UNCHANGED <<kind, execute, tools, response, channel, sent, schemaVars, quizVars>>

NextAdapter == \/ StartActor \/ TransportSucceed \/ TransportFail \/ Resume
               \/ ToolInvoke \/ ToolDone \/ DispatchNext \/ ResolveDispatched
               \/ StreamSend \/ StreamEnd \/ StreamFail \/ StreamDeliver \/ Cancel

SpecAdapter == InitAdapter /\ [][NextAdapter]_vars

\* -------------------------------------------------- actor adapter: claims
NamesOf(r) == [i \in 1..Len(r) |-> r[i].name]

IsPrefix(a, b) == Len(a) <= Len(b) /\ \A i \in 1..Len(a) : a[i] = b[i]

Dispatched == Vals(log, "dispatch")

Emitted == Vals(log, "emit")

\* No entry named in `later` follows an entry named in `earlier`.
NeverAfter(earlier, later) == \A i, j \in 1..Len(log) : log[i].op \in earlier /\ i < j => log[j].op \notin later

\* C1: with execute at its default, the parent receives the events of the
\* completion's choices in choice order, none skipped, duplicated or
\* reordered, and the actor resolves only after the last of them.
C1_DispatchInChoiceOrderBeforeResolve == kind = "fromEventChoice" /\ execute = "unset" =>
                                           /\ IsPrefix(Dispatched, NamesOf(response))
                                           /\ status = "done" => Dispatched = NamesOf(response)
                                           /\ NeverAfter({"resolve"}, {"dispatch"})

C1_Witness == /\ kind = "fromEventChoice" /\ execute = "unset" /\ status = "done"
              /\ NamesOf(response) = <<"search", "lookup", "submit">>
              /\ log[Len(log)].op = "resolve"

C5_StreamCancelAbortsOnce == kind = "fromChatStream" =>
                               /\ Count(log, "abort") <= 1
                               /\ Count(log, "cancel") >= 1 => Count(log, "abort") = 1 /\ status = "stopped"
                               /\ status = "stopped" => Count(log, "cancel") = 1
                               /\ NeverAfter({"cancel"}, {"emit", "complete", "error"})

C5_Witness == /\ kind = "fromChatStream" /\ status = "stopped" /\ cancels = 2
              /\ Len(Emitted) = 1
              /\ channel # <<>> /\ channel[1].op = "chunk"

Stopped == kind \in ChoiceKinds /\ status = "stopped"

\* C6: after the executor cancels an in-flight fromEventChoice or
\* fromToolChoice actor, however the cancel interleaves with the transport
\* settling, nothing is dispatched and the actor does not resolve, the
\* transport request has been aborted, and a further cancel changes nothing.
C6_CancelIsTerminal == /\ [](Stopped => Count(log, "abort") = 1 /\ transport # "pending" /\ NeverAfter({"cancel"}, {"dispatch", "resolve", "reject", "invokeTool"}))
                       /\ [][Stopped => UNCHANGED <<status, pc, idx, transport, response, events, output, error, log>>]_vars

C6_Witness == /\ Stopped /\ cancels = 2
              /\ transport = "ok" /\ pc = "dispatching" /\ Len(Dispatched) = 1
              /\ Len(events) = 2

\* C7: with options.execute = false nothing is ever dispatched, and the
\* actor resolves with the produced events in choice order when there is at
\* least one choice, and with undefined when there is none.
C7_NoDispatchWhenExecuteFalse == kind \in ChoiceKinds /\ execute = "false" =>
                                   /\ Count(log, "dispatch") = 0
                                   /\ pc \notin {"dispatching", "resolving"}
                                   /\ status = "done" => output = IF response = <<>> THEN Undefined ELSE [kind |-> "events", val |-> NamesOf(response)]

C7_Witness == /\ kind = "fromToolChoice" /\ execute = "false" /\ status = "done"
              /\ Len(response) = 2 /\ response[1].name # response[2].name

\* C8: a fromChat invocation issues exactly one request and settles at most
\* once, with that request's outcome: the completion result unchanged on
\* success, CompletionRequestError on transport failure; never a second
\* request.
C8_ChatOneRequestOneOutcome == kind = "fromChat" =>
                                 /\ Count(log, "request") = (IF status = "idle" THEN 0 ELSE 1)
                                 /\ Count(log, "resolve") + Count(log, "reject") = (IF status \in {"done", "error"} THEN 1 ELSE 0)
                                 /\ status = "done" => transport = "ok" /\ output.kind = "completion" /\ output.val = response
                                 /\ status = "error" => transport = "failed" /\ error = "CompletionRequestError"
                                 /\ Count(log, "dispatch") = 0

C8_Witness == /\ kind = "fromChat" /\ status = "done" /\ Len(response) = 2
              /\ cancels = 1

ChunksIn(ch) == LET c == SelectSeq(ch, LAMBDA e : e.op = "chunk") IN [i \in 1..Len(c) |-> c[i].val]

\* C9: a streaming actor emits the transport's chunks in arrival order,
\* without loss or duplication; it completes exactly when end-of-stream is
\* delivered, and a transport failure ends it with StreamError, after which
\* nothing more is emitted.
C9_StreamInOrderUntilEndOrError == kind = "fromChatStream" =>
                                     /\ Emitted \o ChunksIn(channel) = sent
                                     /\ status = "done" <=> Count(log, "complete") = 1
                                     /\ status = "done" => transport = "ok" /\ Emitted = sent /\ channel = <<>>
                                     /\ status = "error" => transport = "failed" /\ error = "StreamError" /\ Emitted = sent
                                     /\ status = "active" /\ channel = <<>> => transport = "pending"
                                     /\ NeverAfter({"complete", "error"}, {"emit", "complete", "error"})

C9_Witness == /\ kind = "fromChatStream" /\ status = "error"
              /\ Emitted = <<"c1", "c2">>

\* --------------------------------------------------- quiz machine: claims
ActorFailed == qstate \in {"Fetching question", "Checking answer"} /\ lastEvent' \in {"error.fetchQuestion", "error.checkAnswer"}

\* C12: a failure of fetchQuestion or of checkAnswer moves the machine to
\* 'Failure' and leaves score, difficultyLevel and questionNumber as they
\* were; 'Failure' is left only by 'retry' (to 'Fetching question') and by
\* 'end game' (to 'Game over'), and nothing changes the context there.
C12_FailureRouting == [][/\ ActorFailed => /\ qstate' = "Failure"
                                           /\ ctx'.score = ctx.score
                                           /\ ctx'.difficultyLevel = ctx.difficultyLevel
                                           /\ ctx'.questionNumber = ctx.questionNumber
                         /\ qstate = "Failure" => ctx' = ctx
                         /\ qstate = "Failure" /\ qstate' # "Failure" => \/ (lastEvent' = "retry" /\ qstate' = "Fetching question")
                                                                        \/ (lastEvent' = "end game" /\ qstate' = "Game over")]_vars

C12_Witness == /\ qstate = "Fetching question" /\ lastEvent = "retry"
               /\ ctx.currentAnswer # "" /\ ctx.score > 0

SchemaAccepts(schema, c) == /\ \A i \in 1..Len(schema.required) : schema.required[i] \in DOMAIN c
                            /\ \A k \in DOMAIN c : k \in KeySet(schema.properties)

\* C13: in every reachable state the machine context is valid against
\* schemas.context: every required name is a key of the context and every
\* key of the context is a property of the schema.
C13_ContextValidAgainstSchema == ~schemas.threw /\ SchemaAccepts(schemas.bundle.context, ctx)

\* C14: when the number of questions entered is an integer N >= 1,
\* questionNumber never exceeds N; the machine never rests in 'Waiting for
\* next question' once questionNumber has reached the number entered.
C14_QuestionNumberWithinLimit == /\ ~ctx.numberOfQuestions.nan /\ ctx.numberOfQuestions.val >= 1 => ctx.questionNumber <= ctx.numberOfQuestions.val
                                 /\ ~ctx.numberOfQuestions.nan /\ qstate = "Waiting for next question" /\ internal = <<>> => ctx.questionNumber < ctx.numberOfQuestions.val

C14_Witness == /\ qstate = "Game over" /\ lastEvent = "end game"
               /\ ctx.numberOfQuestions = Num(2) /\ ctx.questionNumber = 2
               /\ ctx.answerResponse # ""

\* C15: an 'end game' event takes the machine to 'Game over' from every
\* state; once in 'Game over', neither the state nor the context changes.
C15_EndGameIsFinal == /\ [](lastEvent = "end game" => qstate = "Game over")
                      /\ [][qstate = "Game over" => qstate' = "Game over" /\ ctx' = ctx /\ internal' = internal]_vars

C15_Witness == /\ qstate = "Game over" /\ lastEvent = "end game"
               /\ ctx.currentTopic = ""
               /\ ~orphaned

\* C16: when every actor completes successfully, the machine eventually
\* reaches 'Game over' whatever the user entered as the number of questions.
C16_EventuallyGameOver == <>(qstate = "Game over")

CheckAnswerCompleted == qstate = "Checking answer" /\ lastEvent' = "done.checkAnswer"

\* C17: difficultyLevel is always between 1 and 10; it changes only when
\* checkAnswer completes, to min(old + 1, 10) after a "Yes" and to
\* max(old - 1, 1) otherwise.
C17_DifficultyLevelClamped == /\ [](ctx.difficultyLevel \in 1..10)
                              /\ [][/\ ctx'.difficultyLevel # ctx.difficultyLevel => CheckAnswerCompleted
                                    /\ CheckAnswerCompleted => ctx'.difficultyLevel = (IF StartsWithYes(ctx'.answerResponse) THEN Min(ctx.difficultyLevel + 1, 10) ELSE Max(ctx.difficultyLevel - 1, 1))]_vars

C17_Witness == /\ ctx.difficultyLevel = 10 /\ ctx.score = 520
               /\ lastEvent = "done.checkAnswer"

NamedLevels == {Line(LevelNames[i]) : i \in 1..Len(LevelNames)}

NamedRatings == {LevelNames[i] : i \in 1..Len(LevelNames)}

\* C18: whenever fetchQuestion's prompt or difficultyRating is evaluated (on
\* entering 'Fetching question', and when checkAnswer has completed), the
\* entry levels[difficultyLevel - 1] is one of the nine named descriptions.
C18_LevelIsNamed == /\ qstate = "Fetching question" => PromptLevel(ctx.difficultyLevel) \in NamedLevels /\ difficultyRating(ctx.difficultyLevel).name \in NamedRatings
                    /\ lastEvent = "done.checkAnswer" => difficultyRating(ctx.difficultyLevel).name \in NamedRatings

\* C19: score never decreases and changes only when checkAnswer completes:
\* by 10 times the difficultyLevel held before the completion after a "Yes",
\* not at all otherwise.
C19_ScoreOnlyOnCorrectAnswer == [][/\ ctx'.score >= ctx.score
                                   /\ ctx'.score # ctx.score => CheckAnswerCompleted
                                   /\ CheckAnswerCompleted => ctx'.score = (IF StartsWithYes(ctx'.answerResponse) THEN ctx.score + 10 * ctx.difficultyLevel ELSE ctx.score)]_vars

C19_Witness == /\ ctx.score = 70 /\ ctx.difficultyLevel = 5
               /\ lastEvent = "done.checkAnswer"

====
